---- MODULE Spec2Model ----
\* A model of the FVM DefaultMachine (fvm/src/machine/default.rs): the
\* mutation API transfer / create_actor / commit_events / flush working on a
\* state tree that sits on a buffered blockstore over an underlying blockstore.
\*
\* Blocks are content addressed: a Cid carries the digest of its block, and a
\* store is a set of blocks looked up by Cid.  Store reads of blocks that are
\* present are assumed to succeed (no spontaneous I/O failure).
EXTENDS Integers, Sequences, FiniteSets, TLC

\* ------------------------------------------------------------------ bounds
MaxActorID == 2
MaxBalance == 2
MaxEvents == 2
MaxCalls == 2
MaxVersion == 19

\* --------------------------------------------------------------- constants
EVENTS_AMT_BITWIDTH == 5
INIT_ACTOR_ID == 1
SYSTEM_ACTOR_ID == 0

\* NetworkVersion: V18, and MAX as the largest version of the model.
V18 == 18
NetworkVersion_MAX == MaxVersion
NetworkVersions == (V18 - 1)..NetworkVersion_MAX

ActorIDs == 0..MaxActorID
Values == (0 - 1)..(MaxBalance + 1)
Addresses == {"f1a", "f1b"}
Events == {"e1", "e2"}

\* Option<T>: None is the empty set, Some(x) the singleton.
None == {}
Some(x) == {x}
Unwrap(o) == CHOOSE x \in o : TRUE

NoActors == [i \in ActorIDs |-> None]
NoAddrs == [a \in Addresses |-> None]

\* ------------------------------------------------------------------ blocks
\* Every block has the same shape; kind says which fields are meaningful.
MkBlock(kind, actors, bit_width, vals, next_id, address_map) ==
    [kind |-> kind, actors |-> actors, bit_width |-> bit_width, vals |-> vals,
     next_id |-> next_id, address_map |-> address_map,
     version |-> 0, link |-> {}]

\* The pre-serialized block containing the empty array.
EMPTY_ARRAY_BLOCK == MkBlock("array", NoActors, 0, <<>>, 0, NoAddrs)

\* A state-tree (HAMT) root holding the ActorID -> ActorState mapping.
HamtBlock(actors) == MkBlock("hamt", actors, 0, <<>>, 0, NoAddrs)

\* An events AMT root: for at most 2^EVENTS_AMT_BITWIDTH entries the trie is a
\* single node whose slot i holds the value set at index i.
AmtBlock(bit_width, vals) == MkBlock("amt", NoActors, bit_width, vals, 0, NoAddrs)

\* The init actor's state: the ActorID counter and the address map.
InitBlock(next_id, address_map) == MkBlock("init", NoActors, 0, <<>>, next_id, address_map)

\* A block that is in no store (the target of a dangling link).
MISSING_BLOCK == MkBlock("array", NoActors, 0, <<"missing">>, 0, NoAddrs)

\* Content identifier: Blake2b256 of the DAG_CBOR block.
Cid(block) == [codec |-> "dag-cbor", mh |-> "blake2b-256", digest |-> block]

EMPTY_ARR_CID == Cid(EMPTY_ARRAY_BLOCK)
MISSING_CID == Cid(MISSING_BLOCK)

\* The empty-array bytes as a store keeps them whose put computes another
\* identifier for them than EMPTY_ARR_CID.
MISFILED_ARRAY_BLOCK == MkBlock("array", NoActors, 0, <<"misfiled">>, 0, NoAddrs)
MISFILED_CID == Cid(MISFILED_ARRAY_BLOCK)

\* The built-in actors manifest data.
MANIFEST_BLOCK == MkBlock("manifest", NoActors, 0, <<>>, 0, NoAddrs)
MANIFEST_CID == Cid(MANIFEST_BLOCK)

\* The system actor's state: its builtin_actors field links the manifest.
SystemBlock(builtin_actors) ==
    [MkBlock("system", NoActors, 0, <<>>, 0, NoAddrs) EXCEPT !.link = {builtin_actors}]

\* A manifest override: the CBOR pair (version, cid).
OverrideBlock(version, cid) ==
    [MkBlock("override", NoActors, 0, <<>>, 0, NoAddrs)
        EXCEPT !.version = version, !.link = {cid}]

\* The override pairs of the model: one links the manifest, one dangles.
OVERRIDE_CID == Cid(OverrideBlock(2, MANIFEST_CID))
DANGLING_OVERRIDE_CID == Cid(OverrideBlock(2, MISSING_CID))

\* ActorState record.
ActorState(code, state, sequence, balance) ==
    [code |-> code, state |-> state, sequence |-> sequence, balance |-> balance]

\* Content-identifier links embedded in a block.
Links(block) ==
    IF block.kind = "hamt"
    THEN {Unwrap(block.actors[i]).state : i \in {j \in ActorIDs : block.actors[j] # None}}
    ELSE block.link

VARIABLES
    base,       \* the underlying blockstore: the set of blocks it holds
    buffer,     \* the write buffer of the BufferedBlockstore
    hamt,       \* state tree: the ActorID -> Option<ActorState> map as last loaded/flushed
    snaps,      \* state tree: staged set_actor writes, ActorID -> Option<ActorState>
    call,       \* the last call made on the machine, with its outcome
    pre,        \* the machine's state right before that call
    genesis,    \* the actor records of the initial state root
    ncalls,     \* number of calls made so far
    context,    \* the MachineContext handed to new (None before new is called)
    builtin_actors, \* the machine's manifest (None while there is no machine)
    machine_id, \* the machine's id string (None while there is no machine)
    build,      \* how the program was built: cargo features, debug
                \* assertions, and what the Blockstore type's put answers
    twin        \* a second machine with its own stores, given the same calls

vars == <<base, buffer, hamt, snaps, call, pre, genesis, ncalls,
          context, builtin_actors, machine_id, build, twin>>

\* ------------------------------------------------------- buffered blockstore
\* get / has: the overlay first, then the underlying store.
bs_get(buf, bas, cid) ==
    IF \E b \in buf : Cid(b) = cid THEN Some(CHOOSE b \in buf : Cid(b) = cid)
    ELSE IF \E b \in bas : Cid(b) = cid THEN Some(CHOOSE b \in bas : Cid(b) = cid)
    ELSE None

bs_has(buf, bas, cid) == bs_get(buf, bas, cid) # None

\* put: stage the block in the overlay, return its content identifier.
bs_put(buf, block) == [buffer |-> buf \cup {block}, cid |-> Cid(block)]

\* The Cids reachable from a set of Cids by following embedded links.
RECURSIVE Reach(_, _, _, _)
Reach(buf, bas, frontier, seen) ==
    IF frontier = {} THEN seen
    ELSE LET found == UNION {bs_get(buf, bas, c) : c \in frontier}
             next == UNION {Links(b) : b \in found}
             seen2 == seen \cup frontier
         IN Reach(buf, bas, next \ seen2, seen2)

Closure(buf, bas, root) == Reach(buf, bas, {root}, {})

\* flush(root): write every reachable block found in the overlay into the
\* underlying store; fail if a reachable link resolves in neither store.
\* With evict the flushed closure leaves the overlay.
bs_flush(buf, bas, root, evict) ==
    LET cids == Closure(buf, bas, root)
        moved == {b \in buf : Cid(b) \in cids}
    IN IF \E c \in cids : ~bs_has(buf, bas, c)
       THEN [ok |-> FALSE, buffer |-> buf, base |-> bas]
       ELSE [ok |-> TRUE,
             buffer |-> IF evict THEN buf \ moved ELSE buf,
             base |-> bas \cup moved]

\* ---------------------------------------------------------------- state tree
get_actor(h, s, id) == IF s[id] # None THEN s[id] ELSE h[id]

set_actor(s, id, act) == [s EXCEPT ![id] = Some(act)]

\* The mapping the state tree currently shows.
TreeView(h, s) == [i \in ActorIDs |-> get_actor(h, s, i)]

\* StateTree::flush: staged writes go into the trie, whose root is put into
\* the buffered store; returns the root Cid.
st_flush(h, s, buf) ==
    LET h2 == TreeView(h, s)
        p == bs_put(buf, HamtBlock(h2))
    IN [hamt |-> h2, snaps |-> NoActors, buffer |-> p.buffer, root |-> p.cid]

\* ActorState::deduct_funds: fails when the balance is below the amount.
deduct_funds(act, amt) ==
    IF act.balance < amt
    THEN [ok |-> FALSE, actor |-> act]
    ELSE [ok |-> TRUE, actor |-> [act EXCEPT !.balance = act.balance - amt]]

\* ActorState::deposit_funds.
deposit_funds(act, amt) == [act EXCEPT !.balance = act.balance + amt]

\* StateTree::register_new_address: resolve addr through the init actor's
\* state; an unseen address takes the next ActorID and the updated init state
\* is put into the buffered store and staged on the init actor.
register_new_address(h, s, buf, bas, addr) ==
    LET init_actor == get_actor(h, s, INIT_ACTOR_ID)
        failed == [ok |-> FALSE, id |-> 0, snaps |-> s, buffer |-> buf]
    IN IF init_actor = None THEN failed
       ELSE LET actor == Unwrap(init_actor)
                st == bs_get(buf, bas, actor.state)
            IN IF st = None \/ Unwrap(st).kind # "init" THEN failed
               ELSE LET state == Unwrap(st) IN
                    IF state.address_map[addr] # None
                    THEN [ok |-> TRUE, id |-> Unwrap(state.address_map[addr]),
                          snaps |-> s, buffer |-> buf]
                    ELSE LET new_id == state.next_id
                             p == bs_put(buf, InitBlock(state.next_id + 1,
                                      [state.address_map EXCEPT ![addr] = Some(new_id)]))
                         IN [ok |-> TRUE, id |-> new_id,
                             snaps |-> set_actor(s, INIT_ACTOR_ID, [actor EXCEPT !.state = p.cid]),
                             buffer |-> p.buffer]

\* The ActorID register_new_address would allocate for addr (0 when it
\* allocates none: no init state, or addr already registered).
next_actor_id(h, s, buf, bas, addr) ==
    LET init_actor == get_actor(h, s, INIT_ACTOR_ID) IN
    IF init_actor = None THEN 0
    ELSE LET st == bs_get(buf, bas, Unwrap(init_actor).state) IN
         IF st = None \/ Unwrap(st).kind # "init" THEN 0
         ELSE IF Unwrap(st).address_map[addr] # None THEN 0
         ELSE Unwrap(st).next_id

\* ------------------------------------------------------------------ machine
MkCall(op, from, to, value, addr, act, events, result, ret_cid, ret_id) ==
    [op |-> op, from |-> from, to |-> to, value |-> value, addr |-> addr,
     act |-> act, events |-> events, result |-> result,
     ret_cid |-> ret_cid, ret_id |-> ret_id]

\* The state an operation starts from, with the kind of the operation before
\* it and the identifier that one returned.
Snapshot ==
    [hamt |-> hamt, snaps |-> snaps, base |-> base, buffer |-> buffer,
     op |-> call.op, ret_cid |-> call.ret_cid]

\* Mutant: the events are inserted last first.
amt_batch_set_reversed(events) ==
    [i \in 0..(Len(events) - 1) |-> events[Len(events) - i]]

\* Amt::batch_set over events.iter(): the i-th event goes to index i (0-based).
amt_batch_set(events) == [i \in 0..(Len(events) - 1) |-> events[i + 1]]

\* Mutant: the negative-value check is missing.
is_negative_never(value) == FALSE

\* value.is_negative()
is_negative(value) == value < 0

\* Mutant: a missing sender is reported like a missing receiver.
from_missing_error_not_found == "NotFound"

\* The error kind given to a missing sender record.
from_missing_error == "InsufficientFunds"

\* Mutant: the balance check lets one token too many through.
insufficient_funds_off_by_one(balance, value) == balance + 1 < value

\* Mutant: the balance pre-check is missing.
insufficient_funds_never(balance, value) == FALSE

\* &from_actor.balance < value
insufficient_funds(balance, value) == balance < value

\* Mutant: the self-transfer shortcut is missing.
is_self_transfer_never(from, to) == FALSE

\* from == to
is_self_transfer(from, to) == from = to

\* Mutant: a missing receiver is reported like a missing sender.
to_missing_error_insufficient == "InsufficientFunds"

\* The error kind given to a missing receiver record.
to_missing_error == "NotFound"

\* Mutant: the receiver's record is not written back.
persist_from_only(s, from, from_actor, to, to_actor) ==
    set_actor(s, from, from_actor)

\* Mutant: the two records are written back under each other's ActorID.
persist_swapped(s, from, from_actor, to, to_actor) ==
    set_actor(set_actor(s, from, to_actor), to, from_actor)

\* set_actor(from, from_actor); set_actor(to, to_actor)
persist_both(s, from, from_actor, to, to_actor) ==
    set_actor(set_actor(s, from, from_actor), to, to_actor)

\* DefaultMachine::transfer: the outcome and the staged writes it leaves.
transfer_body(h, s, from, to, value) ==
    IF is_negative(value) THEN [result |-> "IllegalArgument", snaps |-> s]
    ELSE IF get_actor(h, s, from) = None
    THEN [result |-> from_missing_error, snaps |-> s]
    ELSE LET from_actor == Unwrap(get_actor(h, s, from)) IN
         IF insufficient_funds(from_actor.balance, value)
         THEN [result |-> "InsufficientFunds", snaps |-> s]
         ELSE IF is_self_transfer(from, to) THEN [result |-> "Ok", snaps |-> s]
         ELSE IF get_actor(h, s, to) = None
         THEN [result |-> to_missing_error, snaps |-> s]
         ELSE LET to_actor == Unwrap(get_actor(h, s, to))
                  d == deduct_funds(from_actor, value)
              IN IF ~d.ok THEN [result |-> "Fatal", snaps |-> s]
                 ELSE [result |-> "Ok",
                       snaps |-> persist_both(s, from, d.actor,
                                              to, deposit_funds(to_actor, value))]

\* Mutant: transfer writes the changed state tree through to the underlying store.
transfer_write_through(from, to, value) ==
    /\ LET r == transfer_body(hamt, snaps, from, to, value) IN
         /\ snaps' = r.snaps
         /\ base' = base \cup {HamtBlock(TreeView(hamt, r.snaps))}
         /\ call' = MkCall("transfer", from, to, value, "", None, <<>>, r.result, None, None)
    /\ pre' = Snapshot
    /\ UNCHANGED <<buffer, hamt, genesis, context, builtin_actors, machine_id, build>>

transfer(from, to, value) ==
    /\ LET r == transfer_body(hamt, snaps, from, to, value) IN
         /\ snaps' = r.snaps
         /\ call' = MkCall("transfer", from, to, value, "", None, <<>>, r.result, None, None)
    /\ pre' = Snapshot
    /\ UNCHANGED <<base, buffer, hamt, genesis, context, builtin_actors, machine_id, build>>

\* DefaultMachine::create_actor.
create_actor_body(h, s, buf, bas, addr, act) ==
    LET r == register_new_address(h, s, buf, bas, addr) IN
    IF ~r.ok THEN [result |-> "Fatal", ret_id |-> None, snaps |-> s, buffer |-> buf]
    ELSE [result |-> "Ok", ret_id |-> Some(r.id),
          snaps |-> set_actor(r.snaps, r.id, act), buffer |-> r.buffer]

create_actor(addr, act) ==
    /\ next_actor_id(hamt, snaps, buffer, base, addr) <= MaxActorID
    /\ LET r == create_actor_body(hamt, snaps, buffer, base, addr, act) IN
         /\ snaps' = r.snaps
         /\ buffer' = r.buffer
         /\ call' = MkCall("create_actor", 0, 0, 0, addr, Some(act), <<>>, r.result, None, r.ret_id)
    /\ pre' = Snapshot
    /\ UNCHANGED <<base, hamt, genesis, context, builtin_actors, machine_id, build>>

\* Mutant: the events trie root is not flushed through the buffered store.
commit_events_body_lazy(buf, bas, events, evict) ==
    IF Len(events) = 0 THEN [result |-> "Ok", ret_cid |-> None, buffer |-> buf, base |-> bas]
    ELSE LET p == bs_put(buf, AmtBlock(EVENTS_AMT_BITWIDTH, amt_batch_set(events)))
         IN [result |-> "Ok", ret_cid |-> Some(p.cid), buffer |-> p.buffer, base |-> bas]

\* DefaultMachine::commit_events.
commit_events_body(buf, bas, events, evict) ==
    IF Len(events) = 0 THEN [result |-> "Ok", ret_cid |-> None, buffer |-> buf, base |-> bas]
    ELSE LET p == bs_put(buf, AmtBlock(EVENTS_AMT_BITWIDTH, amt_batch_set(events)))
             amt_cid == p.cid
             f == bs_flush(p.buffer, bas, amt_cid, evict)
         IN IF ~f.ok
            THEN [result |-> "Fatal", ret_cid |-> None, buffer |-> f.buffer, base |-> f.base]
            ELSE [result |-> "Ok", ret_cid |-> Some(amt_cid), buffer |-> f.buffer, base |-> f.base]

commit_events(events, evict) ==
    /\ LET r == commit_events_body(buffer, base, events, evict) IN
         /\ buffer' = r.buffer
         /\ base' = r.base
         /\ call' = MkCall("commit_events", 0, 0, 0, "", None, events, r.result, r.ret_cid, None)
    /\ pre' = Snapshot
    /\ UNCHANGED <<hamt, snaps, genesis, context, builtin_actors, machine_id, build>>

\* Mutant: the buffered store is flushed at the previous root, before the
\* state tree is flushed.
flush_body_store_first(h, s, buf, bas, evict) ==
    LET f == bs_flush(buf, bas, Cid(HamtBlock(h)), evict)
        t == st_flush(h, s, f.buffer)
    IN [result |-> IF f.ok THEN "Ok" ELSE "Fatal",
        ret_cid |-> IF f.ok THEN Some(t.root) ELSE None,
        hamt |-> t.hamt, snaps |-> t.snaps, buffer |-> t.buffer, base |-> f.base]

\* Mutant: only the staged writes make up the flushed tree.
flush_body_staged_only(h, s, buf, bas, evict) ==
    LET t == st_flush(NoActors, s, buf)
        root == t.root
        f == bs_flush(t.buffer, bas, root, evict)
    IN [result |-> IF f.ok THEN "Ok" ELSE "Fatal",
        ret_cid |-> IF f.ok THEN Some(root) ELSE None,
        hamt |-> t.hamt, snaps |-> t.snaps, buffer |-> f.buffer, base |-> f.base]

\* DefaultMachine::flush: the state tree first, then the buffered store.
flush_body(h, s, buf, bas, evict) ==
    LET t == st_flush(h, s, buf)
        root == t.root
        f == bs_flush(t.buffer, bas, root, evict)
    IN [result |-> IF f.ok THEN "Ok" ELSE "Fatal",
        ret_cid |-> IF f.ok THEN Some(root) ELSE None,
        hamt |-> t.hamt, snaps |-> t.snaps, buffer |-> f.buffer, base |-> f.base]

flush(evict) ==
    /\ LET r == flush_body(hamt, snaps, buffer, base, evict) IN
         /\ hamt' = r.hamt
         /\ snaps' = r.snaps
         /\ buffer' = r.buffer
         /\ base' = r.base
         /\ call' = MkCall("flush", 0, 0, 0, "", None, <<>>, r.result, r.ret_cid, None)
    /\ pre' = Snapshot
    /\ UNCHANGED <<genesis, context, builtin_actors, machine_id, build>>

\* ------------------------------------------------------------ construction
\* MachineContext: the fields new reads.
MkContext(network_version, initial_state_root, builtin_actors_override, epoch) ==
    [network_version |-> network_version, initial_state_root |-> initial_state_root,
     builtin_actors_override |-> builtin_actors_override, epoch |-> epoch]

\* Mutant: the supported range leaves out its upper bound.
SUPPORTED_VERSIONS_exclusive(hyperspace) ==
    IF hyperspace THEN V18..(NetworkVersion_MAX - 1) ELSE V18..(V18 - 1)

\* SUPPORTED_VERSIONS: V18..=V18, or V18..=MAX with the feature hyperspace.
SUPPORTED_VERSIONS(hyperspace) ==
    IF hyperspace THEN V18..NetworkVersion_MAX ELSE V18..V18

\* multibase Base32Lower of 16 random bytes, for the two draws of the model:
\* every byte 0x00, or every byte 0xff.
base32lower(randomness) ==
    IF randomness = 0 THEN "baaaaaaaaaaaaaaaaaaaaaaaaaa"
    ELSE "b77777777777777777777777774"

\* format!("{}-{}", context.epoch, base32lower(randomness))
format_id(epoch, randomness) == ToString(epoch) \o "-" \o base32lower(randomness)

\* What new leaves when it fails: no machine.
NoMachine(result, bas) ==
    [result |-> result, base |-> bas, hamt |-> NoActors,
     builtin_actors |-> None, machine_id |-> None]

\* Mutant: the manifest data is put as one more privileged block.
put_empty_blocks_and_manifest(bas, bld) ==
    LET empty_arr_cid == bld.put_cid
        stored == bas \cup {empty_arr_cid.digest, MANIFEST_BLOCK}
    IN IF bld.debug_assertions /\ empty_arr_cid # EMPTY_ARR_CID
       THEN [result |-> "Panic", base |-> stored]
       ELSE [result |-> "Ok", base |-> stored]

\* put_empty_blocks: put the empty-array block straight into the underlying
\* store, which files it under the identifier its put answers; debug_assert!
\* panics on another identifier than EMPTY_ARR_CID when debug assertions are
\* compiled in, and is no code at all when they are not.
put_empty_blocks(bas, bld) ==
    LET empty_arr_cid == bld.put_cid
        stored == bas \cup {empty_arr_cid.digest}
    IN IF bld.debug_assertions /\ empty_arr_cid # EMPTY_ARR_CID
       THEN [result |-> "Panic", base |-> stored]
       ELSE [result |-> "Ok", base |-> stored]

\* StateTree::new_from_root: the records under root, or None when root does
\* not decode as a trie node.
new_from_root(bas, root) ==
    LET b == bs_get({}, bas, root) IN
    IF b = None \/ Unwrap(b).kind # "hamt" THEN None ELSE Some(Unwrap(b).actors)

\* get_cbor::<(u32, Cid)>(manifest_cid): the override pair.
load_override(bas, manifest_cid) ==
    LET b == bs_get({}, bas, manifest_cid) IN
    IF b = None \/ Unwrap(b).kind # "override" THEN None
    ELSE Some([cid |-> Unwrap(Unwrap(b).link), version |-> Unwrap(b).version])

\* SystemActorState::load: the system actor's record, then its state.
system_actor_load(h, bas) ==
    IF h[SYSTEM_ACTOR_ID] = None THEN None
    ELSE LET st == bs_get({}, bas, Unwrap(h[SYSTEM_ACTOR_ID]).state) IN
         IF st = None \/ Unwrap(st).kind # "system" THEN None ELSE st

\* (builtin_actors_cid, manifest_version): from the override when the context
\* has one, else from the system actor's state with version 1.
resolve_manifest(h, bas, override) ==
    IF override # None THEN load_override(bas, Unwrap(override))
    ELSE LET state == system_actor_load(h, bas) IN
         IF state = None THEN None
         ELSE Some([cid |-> Unwrap(Unwrap(state).link), version |-> 1])

\* Manifest::load.
manifest_load(bas, cid, version) ==
    LET b == bs_get({}, bas, cid) IN
    IF b = None \/ Unwrap(b).kind # "manifest" THEN None
    ELSE Some([version |-> version, cid |-> cid])

\* Mutant: the random bytes also seed the sequence number of the system
\* actor's record in the loaded tree.
new_machine_salted(p, ctx, randomness) ==
    IF p.result # "Ok" THEN NoMachine(p.result, p.base)
    ELSE LET state_tree == new_from_root(p.base, ctx.initial_state_root) IN
         IF state_tree = None THEN NoMachine("StateTreeError", p.base)
         ELSE LET m == resolve_manifest(Unwrap(state_tree), p.base,
                                        ctx.builtin_actors_override) IN
              IF m = None THEN NoMachine("ManifestError", p.base)
              ELSE LET manifest == manifest_load(p.base, Unwrap(m).cid, Unwrap(m).version) IN
                   IF manifest = None THEN NoMachine("ManifestError", p.base)
                   ELSE [result |-> "Ok", base |-> p.base,
                         hamt |-> [i \in ActorIDs |->
                                     IF i = SYSTEM_ACTOR_ID /\ Unwrap(state_tree)[i] # None
                                     THEN Some([Unwrap(Unwrap(state_tree)[i])
                                                   EXCEPT !.sequence = randomness])
                                     ELSE Unwrap(state_tree)[i]],
                         builtin_actors |-> manifest,
                         machine_id |-> Some(format_id(ctx.epoch, randomness))]

\* new from put_empty_blocks on: p is what put_empty_blocks left.
new_machine(p, ctx, randomness) ==
    IF p.result # "Ok" THEN NoMachine(p.result, p.base)
    ELSE LET state_tree == new_from_root(p.base, ctx.initial_state_root) IN
         IF state_tree = None THEN NoMachine("StateTreeError", p.base)
         ELSE LET m == resolve_manifest(Unwrap(state_tree), p.base,
                                        ctx.builtin_actors_override) IN
              IF m = None THEN NoMachine("ManifestError", p.base)
              ELSE LET manifest == manifest_load(p.base, Unwrap(m).cid, Unwrap(m).version) IN
                   IF manifest = None THEN NoMachine("ManifestError", p.base)
                   ELSE [result |-> "Ok", base |-> p.base, hamt |-> Unwrap(state_tree),
                         builtin_actors |-> manifest,
                         machine_id |-> Some(format_id(ctx.epoch, randomness))]

\* Mutant: the empty blocks are put before the two checks.
new_body_put_first(bas, ctx, bld, randomness) ==
    LET p == put_empty_blocks(bas, bld) IN
    IF ctx.network_version \notin SUPPORTED_VERSIONS(bld.hyperspace)
    THEN NoMachine("UnsupportedVersion", p.base)
    ELSE IF ~bs_has({}, p.base, ctx.initial_state_root)
    THEN NoMachine("MissingRoot", p.base)
    ELSE new_machine(p, ctx, randomness)

\* DefaultMachine::new: the version check, the root check, then the rest.
new_body(bas, ctx, bld, randomness) ==
    IF ctx.network_version \notin SUPPORTED_VERSIONS(bld.hyperspace)
    THEN NoMachine("UnsupportedVersion", bas)
    ELSE IF ~bs_has({}, bas, ctx.initial_state_root)
    THEN NoMachine("MissingRoot", bas)
    ELSE new_machine(put_empty_blocks(bas, bld), ctx, randomness)

new(ctx, randomness) ==
    /\ context = None
    /\ LET r == new_body(base, ctx, build, randomness) IN
         /\ base' = r.base
         /\ hamt' = r.hamt
         /\ genesis' = r.hamt
         /\ builtin_actors' = r.builtin_actors
         /\ machine_id' = r.machine_id
         /\ call' = MkCall("new", 0, 0, 0, "", None, <<>>, r.result, None, None)
    /\ context' = Some(ctx)
    /\ pre' = Snapshot
    /\ UNCHANGED <<buffer, snaps, ncalls, build>>

\* ------------------------------------------------------------ initial state
\* The record actor i holds in an initial state tree whose init actor has
\* handed out the ActorIDs below next_id.
InitialActor(i, balance, next_id) ==
    ActorState(10 + i,
               IF i = INIT_ACTOR_ID THEN Cid(InitBlock(next_id, NoAddrs)) ELSE EMPTY_ARR_CID,
               i + 1, balance)

\* Initial state trees: every actor below next_id is absent or holds one of
\* the given balances; no ActorID from next_id on has a record.
InitialTrees(next_id, balances) ==
    {h \in [ActorIDs -> {None} \cup {Some(InitialActor(i, b, next_id)) :
                                        i \in ActorIDs, b \in balances}] :
        \A i \in ActorIDs :
            /\ i >= next_id => h[i] = None
            /\ h[i] # None => Unwrap(h[i]).code = 10 + i}

\* The ActorState values create_actor is called with.
NewActors ==
    {ActorState(20, st, 0, b) : st \in {EMPTY_ARR_CID, MISSING_CID}, b \in {0, 1}}

EventSeqs == UNION {[1..n -> Events] : n \in 0..MaxEvents}

NoCall == MkCall("none", 0, 0, 0, "", None, <<>>, "Ok", None, None)

\* No second machine.
NoTwin ==
    [base |-> {}, buffer |-> {}, hamt |-> NoActors, snaps |-> NoActors,
     call |-> NoCall, builtin_actors |-> None, machine_id |-> None]

\* The machine as DefaultMachine::new leaves it over a store holding the
\* initial root: the underlying store holds the root's blocks and the
\* empty-array block, nothing is buffered, nothing is staged.
Constructed(next_id, balances) ==
    /\ hamt \in InitialTrees(next_id, balances)
    /\ snaps = NoActors
    /\ buffer = {}
    /\ base = {EMPTY_ARRAY_BLOCK, HamtBlock(hamt), OverrideBlock(2, MANIFEST_CID),
               MANIFEST_BLOCK}
              \cup (IF hamt[INIT_ACTOR_ID] # None THEN {InitBlock(next_id, NoAddrs)} ELSE {})
    /\ call = NoCall
    /\ pre = [hamt |-> hamt, snaps |-> snaps, base |-> base, buffer |-> buffer,
              op |-> call.op, ret_cid |-> call.ret_cid]
    /\ genesis = hamt
    /\ ncalls = 0
    /\ context = Some(MkContext(V18, Cid(HamtBlock(hamt)), Some(OVERRIDE_CID), 0))
    /\ builtin_actors = Some([version |-> 2, cid |-> MANIFEST_CID])
    /\ machine_id = Some(format_id(0, 0))
    /\ build = [hyperspace |-> FALSE, debug_assertions |-> TRUE, put_cid |-> EMPTY_ARR_CID]
    /\ twin = NoTwin

\* Only the ActorIDs up to the init actor's have been handed out, and every
\* record holds MaxBalance.
Init == Constructed(INIT_ACTOR_ID + 1, {MaxBalance})

\* One more ActorID has been handed out, and the records hold nothing or
\* MaxBalance.
InitTransfer == Constructed(INIT_ACTOR_ID + 2, {0, MaxBalance})

\* One more call on the one machine, while the call budget lasts.
Counted == ncalls < MaxCalls /\ ncalls' = ncalls + 1 /\ UNCHANGED twin

Next ==
    \/ Counted /\ \E from \in ActorIDs, to \in ActorIDs, value \in Values :
                      transfer(from, to, value)
    \/ Counted /\ \E addr \in Addresses, act \in NewActors : create_actor(addr, act)
    \/ Counted /\ \E events \in EventSeqs, evict \in BOOLEAN : commit_events(events, evict)
    \/ Counted /\ \E evict \in BOOLEAN : flush(evict)

Spec == Init /\ [][Next]_vars

\* Transfers only, any number of them.
NextTransfer ==
    \E from \in ActorIDs, to \in ActorIDs, value \in Values :
        UNCHANGED <<ncalls, twin>> /\ transfer(from, to, value)

SpecTransfer == InitTransfer /\ [][NextTransfer]_vars

\* The ways to build the program: with or without the feature hyperspace,
\* with or without debug assertions, over a Blockstore type whose put answers
\* EMPTY_ARR_CID for the empty-array block or another identifier.
Builds ==
    [hyperspace : BOOLEAN, debug_assertions : BOOLEAN,
     put_cid : {EMPTY_ARR_CID, MISFILED_CID}]

\* The system actor's record, its state linking the given manifest.
SystemActor(manifest_cid) ==
    ActorState(10 + SYSTEM_ACTOR_ID, Cid(SystemBlock(manifest_cid)), SYSTEM_ACTOR_ID + 1, 0)

\* The system actor of a caller's state tree: none, one whose state links
\* the manifest, one whose state links a block that is nowhere.
SystemActors == {None} \cup {Some(SystemActor(c)) : c \in {MANIFEST_CID, MISSING_CID}}

\* A caller's state tree: the given system actor and the init actor.
NewTree(sys) ==
    [i \in ActorIDs |->
        IF i = SYSTEM_ACTOR_ID THEN sys
        ELSE IF i = INIT_ACTOR_ID
        THEN Some(InitialActor(i, MaxBalance, INIT_ACTOR_ID + 1))
        ELSE None]

\* The blocks a caller's store may or may not hold.
OptionalBlocks(sys) ==
    {HamtBlock(NewTree(sys)), MANIFEST_BLOCK, OverrideBlock(2, MANIFEST_CID),
     EMPTY_ARRAY_BLOCK}
    \cup (IF sys = None THEN {}
          ELSE {b \in {SystemBlock(MANIFEST_CID), SystemBlock(MISSING_CID)} :
                   Cid(b) = Unwrap(sys).state})

\* The state roots new is called with: of the callers' trees, or the
\* identifier of the empty array (a block that is no trie node).
Roots == {Cid(HamtBlock(NewTree(a))) : a \in SystemActors} \cup {EMPTY_ARR_CID}

\* The contexts new is called with.
Contexts ==
    {MkContext(v, r, o, e) :
        v \in NetworkVersions, r \in Roots,
        o \in {None, Some(OVERRIDE_CID), Some(DANGLING_OVERRIDE_CID)},
        e \in {0, 1}}

\* The draws of rand::random(): every byte 0x00, or every byte 0xff.
Randomness == {0, 255}

\* Before new: a store the caller filled, and no machine.
InitNew ==
    /\ \E sys \in SystemActors : \E present \in SUBSET OptionalBlocks(sys) :
           base = present \cup {InitBlock(INIT_ACTOR_ID + 1, NoAddrs),
                                OverrideBlock(2, MISSING_CID)}
    /\ hamt = NoActors
    /\ snaps = NoActors
    /\ buffer = {}
    /\ call = NoCall
    /\ pre = [hamt |-> hamt, snaps |-> snaps, base |-> base, buffer |-> buffer,
              op |-> call.op, ret_cid |-> call.ret_cid]
    /\ genesis = NoActors
    /\ ncalls = 0
    /\ context = None
    /\ builtin_actors = None
    /\ machine_id = None
    /\ build \in Builds
    /\ twin = NoTwin

NextNew ==
    \E ctx \in Contexts, randomness \in Randomness :
        UNCHANGED twin /\ new(ctx, randomness)

SpecNew == InitNew /\ [][NextNew]_vars

\* ------------------------------------------------------------ two machines
\* Two machines are constructed from one context over two stores with the
\* same contents, with different draws of the random bytes (the first machine
\* being the one with the smaller draw), and are then given the same calls;
\* where the buffered store may evict, the two do the opposite.
TwinStore ==
    OptionalBlocks(Some(SystemActor(MANIFEST_CID)))
    \cup {InitBlock(INIT_ACTOR_ID + 1, NoAddrs), OverrideBlock(2, MISSING_CID)}

TwinContexts ==
    {MkContext(V18, Cid(HamtBlock(NewTree(Some(SystemActor(MANIFEST_CID))))), None, 0)}

twin_new(ctx, randomness, twin_randomness) ==
    /\ new(ctx, randomness)
    /\ LET r == new_body(twin.base, ctx, build, twin_randomness) IN
         twin' = [twin EXCEPT
                     !.base = r.base, !.hamt = r.hamt,
                     !.builtin_actors = r.builtin_actors,
                     !.machine_id = r.machine_id,
                     !.call = MkCall("new", 0, 0, 0, "", None, <<>>, r.result, None, None)]

twin_transfer(from, to, value) ==
    /\ transfer(from, to, value)
    /\ LET r == transfer_body(twin.hamt, twin.snaps, from, to, value) IN
         twin' = [twin EXCEPT
                     !.snaps = r.snaps,
                     !.call = MkCall("transfer", from, to, value, "", None, <<>>,
                                     r.result, None, None)]

twin_create_actor(addr, act) ==
    /\ create_actor(addr, act)
    /\ LET r == create_actor_body(twin.hamt, twin.snaps, twin.buffer, twin.base, addr, act) IN
         twin' = [twin EXCEPT
                     !.snaps = r.snaps, !.buffer = r.buffer,
                     !.call = MkCall("create_actor", 0, 0, 0, addr, Some(act), <<>>,
                                     r.result, None, r.ret_id)]

twin_commit_events(events, evict) ==
    /\ commit_events(events, evict)
    /\ LET r == commit_events_body(twin.buffer, twin.base, events, ~evict) IN
         twin' = [twin EXCEPT
                     !.buffer = r.buffer, !.base = r.base,
                     !.call = MkCall("commit_events", 0, 0, 0, "", None, events,
                                     r.result, r.ret_cid, None)]

twin_flush(evict) ==
    /\ flush(evict)
    /\ LET r == flush_body(twin.hamt, twin.snaps, twin.buffer, twin.base, ~evict) IN
         twin' = [twin EXCEPT
                     !.hamt = r.hamt, !.snaps = r.snaps,
                     !.buffer = r.buffer, !.base = r.base,
                     !.call = MkCall("flush", 0, 0, 0, "", None, <<>>,
                                     r.result, r.ret_cid, None)]

InitTwin ==
    /\ base = TwinStore
    /\ hamt = NoActors
    /\ snaps = NoActors
    /\ buffer = {}
    /\ call = NoCall
    /\ pre = [hamt |-> hamt, snaps |-> snaps, base |-> base, buffer |-> buffer,
              op |-> call.op, ret_cid |-> call.ret_cid]
    /\ genesis = NoActors
    /\ ncalls = 0
    /\ context = None
    /\ builtin_actors = None
    /\ machine_id = None
    /\ build = [hyperspace |-> FALSE, debug_assertions |-> TRUE, put_cid |-> EMPTY_ARR_CID]
    /\ twin = [NoTwin EXCEPT !.base = TwinStore]

\* One more call on both machines, while the call budget lasts.
CountedBoth == machine_id # None /\ ncalls < MaxCalls /\ ncalls' = ncalls + 1

NextTwin ==
    \/ \E ctx \in TwinContexts, randomness \in Randomness, twin_randomness \in Randomness :
           randomness < twin_randomness /\ twin_new(ctx, randomness, twin_randomness)
    \/ CountedBoth /\ \E from \in ActorIDs, to \in ActorIDs, value \in Values :
                          twin_transfer(from, to, value)
    \/ CountedBoth /\ \E addr \in Addresses, act \in NewActors : twin_create_actor(addr, act)
    \/ CountedBoth /\ \E events \in EventSeqs, evict \in BOOLEAN :
                          twin_commit_events(events, evict)
    \/ CountedBoth /\ \E evict \in BOOLEAN : twin_flush(evict)

SpecTwin == InitTwin /\ [][NextTwin]_vars

\* ------------------------------------------------------------ observations
View == TreeView(hamt, snaps)
PreView == TreeView(pre.hamt, pre.snaps)

BalanceOf(view, i) == IF view[i] = None THEN 0 ELSE Unwrap(view[i]).balance

RECURSIVE SumBalances(_, _)
SumBalances(view, ids) ==
    IF ids = {} THEN 0
    ELSE LET i == CHOOSE j \in ids : TRUE
         IN BalanceOf(view, i) + SumBalances(view, ids \ {i})

TotalBalance(view) == SumBalances(view, ActorIDs)

TreeUnchanged == hamt = pre.hamt /\ snaps = pre.snaps
StoresUnchanged == base = pre.base /\ buffer = pre.buffer

IsTransfer == call.op = "transfer"

PreFrom == PreView[call.from]
PreTo == PreView[call.to]

\* ------------------------------------------------------------------- claims

\* C1: conservation. After any finite sequence of transfer calls, whatever
\* their arguments and outcomes, the sum of all actor balances in the state
\* tree equals the sum in the initial state tree.
C1_Conservation == TotalBalance(View) = TotalBalance(genesis)

\* A transfer has moved a positive value between two distinct actors.
C1_Witness ==
    /\ IsTransfer /\ call.result = "Ok"
    /\ call.from # call.to /\ call.value > 0
    /\ View # genesis

\* C2: a transfer between two distinct present actors with
\* 0 <= value <= from.balance succeeds, takes exactly value from the sender,
\* gives exactly value to the receiver, and changes nothing else: not the
\* code, state root or sequence number of either, nor any other record.
C2_TransferMovesValue ==
    (/\ IsTransfer /\ call.from # call.to
     /\ PreFrom # None /\ PreTo # None
     /\ 0 <= call.value /\ call.value <= BalanceOf(PreView, call.from))
    => /\ call.result = "Ok"
       /\ View[call.from] = Some([Unwrap(PreFrom) EXCEPT !.balance = @ - call.value])
       /\ View[call.to] = Some([Unwrap(PreTo) EXCEPT !.balance = @ + call.value])
       /\ \A i \in ActorIDs \ {call.from, call.to} : View[i] = PreView[i]

\* A transfer took part of the sender's balance while a third actor had a
\* record.
C2_Witness ==
    /\ IsTransfer /\ call.result = "Ok" /\ call.from # call.to
    /\ PreFrom # None /\ PreTo # None
    /\ 0 < call.value /\ call.value < BalanceOf(PreView, call.from)
    /\ \E i \in ActorIDs \ {call.from, call.to} : PreView[i] # None

\* C3: a transfer of a negative value fails as illegal-argument and leaves
\* the state tree unchanged, whatever from and to are; the negative-value
\* check comes before every other check.
C3_NegativeValue ==
    (IsTransfer /\ call.value < 0)
    => (call.result = "IllegalArgument" /\ TreeUnchanged)

\* A negative transfer from a sender that has no record.
C3_Witness ==
    /\ IsTransfer /\ call.value < 0
    /\ PreFrom = None /\ call.result = "IllegalArgument"

\* C4: a transfer of value >= 0 from a sender without a record fails as
\* insufficient-funds, never as not-found, whatever the receiver is, and
\* leaves the state tree unchanged.
C4_MissingSender ==
    (IsTransfer /\ call.value >= 0 /\ PreFrom = None)
    => (call.result = "InsufficientFunds" /\ TreeUnchanged)

\* A transfer of 0 from a missing sender to a missing receiver.
C4_Witness ==
    /\ IsTransfer /\ call.value = 0 /\ call.from # call.to
    /\ PreFrom = None /\ PreTo = None
    /\ call.result = "InsufficientFunds"

\* C5: a transfer from a present, sufficiently funded sender to a distinct
\* receiver without a record fails as not-found; the sender's record is
\* unchanged and no record is created for the receiver.
C5_MissingReceiver ==
    (/\ IsTransfer /\ call.from # call.to
     /\ PreFrom # None /\ PreTo = None
     /\ 0 <= call.value /\ call.value <= BalanceOf(PreView, call.from))
    => /\ call.result = "NotFound"
       /\ View[call.from] = PreFrom
       /\ View[call.to] = None
       /\ TreeUnchanged

\* A funded sender tried to pay a positive value to a missing receiver.
C5_Witness ==
    /\ IsTransfer /\ call.from # call.to
    /\ PreFrom # None /\ PreTo = None
    /\ 0 < call.value /\ call.value <= BalanceOf(PreView, call.from)
    /\ call.result = "NotFound"

\* C6: a self-transfer of 0 <= v <= balance by a present actor succeeds and
\* leaves every record unchanged; with balance < v it fails as
\* insufficient-funds.
C6_SelfTransfer ==
    (IsTransfer /\ call.from = call.to /\ PreFrom # None /\ call.value >= 0)
    => IF call.value <= BalanceOf(PreView, call.from)
       THEN call.result = "Ok" /\ View = PreView /\ TreeUnchanged
       ELSE call.result = "InsufficientFunds"

\* A self-transfer of a positive, covered value succeeded.
C6_Witness ==
    /\ IsTransfer /\ call.from = call.to /\ PreFrom # None
    /\ 0 < call.value /\ call.value <= BalanceOf(PreView, call.from)
    /\ call.result = "Ok"

\* C7: a transfer from a present sender whose balance is below value fails as
\* insufficient-funds with the state tree unchanged for every receiver; with
\* a missing receiver too, since the balance check precedes the receiver
\* lookup.
C7_UnderFunded ==
    (IsTransfer /\ PreFrom # None /\ BalanceOf(PreView, call.from) < call.value)
    => (call.result = "InsufficientFunds" /\ TreeUnchanged)

\* An under-funded sender tried to pay a receiver that has no record.
C7_Witness ==
    /\ IsTransfer /\ call.from # call.to
    /\ PreFrom # None /\ PreTo = None
    /\ BalanceOf(PreView, call.from) < call.value
    /\ call.result = "InsufficientFunds"

\* The state-tree roots a store holds.
StateRoots(store) == {b \in store : b.kind = "hamt"}

\* Every block reachable from root is in the underlying store itself.
DurableFrom(root) == \A c \in Closure({}, base, root) : bs_has({}, base, c)

\* C8: after a successful machine flush returning root R, every block
\* reachable from R is in the underlying store, the state tree opened at R
\* from the underlying store alone holds exactly the actor records the calls
\* made so far have produced, and R is the root the state-tree flush returned
\* (the state tree is flushed before the buffered store).
C8_FlushDurable ==
    (call.op = "flush" /\ call.result = "Ok")
    => /\ call.ret_cid # None
       /\ DurableFrom(Unwrap(call.ret_cid))
       /\ bs_get({}, base, Unwrap(call.ret_cid)) = Some(HamtBlock(PreView))
       /\ Unwrap(call.ret_cid) = st_flush(pre.hamt, pre.snaps, pre.buffer).root
       /\ View = PreView

\* A flush made staged records durable under a root the store did not have.
C8_Witness ==
    /\ call.op = "flush" /\ call.result = "Ok"
    /\ pre.snaps # NoActors
    /\ HamtBlock(PreView) \notin pre.base
    /\ HamtBlock(PreView) \in base

\* C9: transfer never flushes. Whatever its arguments and outcome, both
\* stores are as before the call; the changed records show in the state tree
\* at once, and state-tree blocks enter the underlying store only in a machine
\* flush.
C9_TransferNeverFlushes ==
    /\ IsTransfer => StoresUnchanged
    /\ (IsTransfer /\ call.result = "Ok" /\ call.from # call.to /\ call.value > 0)
       => /\ BalanceOf(View, call.from) = BalanceOf(PreView, call.from) - call.value
          /\ BalanceOf(View, call.to) = BalanceOf(PreView, call.to) + call.value
    /\ call.op # "flush" => StateRoots(base) = StateRoots(pre.base)

\* A transfer changed the tree, and the changed tree is not in the store.
C9_Witness ==
    /\ IsTransfer /\ call.result = "Ok"
    /\ call.from # call.to /\ call.value > 0
    /\ View # PreView
    /\ HamtBlock(View) \notin base

\* C10: eager event commitment. When commit_events returns identifier X,
\* every block of the events trie reachable from X is in the underlying store
\* with no machine flush needed, while the state tree's records and staged
\* writes are untouched and no state-tree block has entered the underlying
\* store.
C10_EagerEvents ==
    (call.op = "commit_events" /\ call.ret_cid # None)
    => /\ call.events # <<>>
       /\ bs_has({}, base, Unwrap(call.ret_cid))
       /\ Unwrap(bs_get({}, base, Unwrap(call.ret_cid))).kind = "amt"
       /\ DurableFrom(Unwrap(call.ret_cid))
       /\ TreeUnchanged
       /\ StateRoots(base) = StateRoots(pre.base)
       /\ (snaps # NoActors /\ HamtBlock(PreView) \notin pre.base)
          => HamtBlock(View) \notin base

\* Events were committed right after a first call that staged actor records;
\* the events are in the underlying store and the staged records are not.
C10_Witness ==
    /\ call.op = "commit_events" /\ call.ret_cid # None
    /\ ncalls = 2 /\ hamt = genesis
    /\ snaps # NoActors /\ View # genesis
    /\ HamtBlock(View) \notin base
    /\ AmtBlock(EVENTS_AMT_BITWIDTH, amt_batch_set(call.events)) \in base
    /\ AmtBlock(EVENTS_AMT_BITWIDTH, amt_batch_set(call.events)) \notin pre.base

\* A machine flush fails when a staged record links to a block in no store.
FlushFatalReached == call.op = "flush" /\ call.result = "Fatal"

\* The indexed trie opened at cid from the underlying store alone.
OpenAmt(cid) == bs_get({}, base, cid)

\* C11: commit_events returns no identifier exactly when the input is empty,
\* and then writes nothing to either store; for n > 0 events it returns an
\* identifier X such that the indexed trie opened at X holds exactly n
\* entries, the i-th input event at position i (0-based).
C11_EventsRoundTrip ==
    (call.op = "commit_events")
    => /\ call.result = "Ok"
       /\ (call.ret_cid = None) <=> (Len(call.events) = 0)
       /\ Len(call.events) = 0 => StoresUnchanged
       /\ Len(call.events) > 0 =>
            /\ OpenAmt(Unwrap(call.ret_cid)) # None
            /\ Unwrap(OpenAmt(Unwrap(call.ret_cid))).kind = "amt"
            /\ DOMAIN Unwrap(OpenAmt(Unwrap(call.ret_cid))).vals
                   = 0..(Len(call.events) - 1)
            /\ \A i \in 0..(Len(call.events) - 1) :
                   Unwrap(OpenAmt(Unwrap(call.ret_cid))).vals[i] = call.events[i + 1]

\* Two different events were committed, in that order.
C11_Witness ==
    /\ call.op = "commit_events" /\ call.ret_cid # None
    /\ Len(call.events) = 2 /\ call.events[1] # call.events[2]
    /\ Unwrap(OpenAmt(Unwrap(call.ret_cid))).vals[0] = call.events[1]
    /\ Unwrap(OpenAmt(Unwrap(call.ret_cid))).vals[1] = call.events[2]

\* C14: once an operation has returned a fatal error the machine is poisoned:
\* the next operation on it (and so every later one) neither succeeds nor
\* changes the state tree or either store.
C14_Poisoned ==
    [][(call.result = "Fatal")
       => /\ call'.result # "Ok"
          /\ hamt' = hamt /\ snaps' = snaps
          /\ base' = base /\ buffer' = buffer]_vars

\* An operation has returned a fatal error and the call budget is not spent.
C14_FatalReturned == call.result = "Fatal" /\ ncalls < MaxCalls

\* C17: starting from non-negative balances, after any sequence of transfer
\* calls every actor's balance is non-negative, and the deduction's own
\* re-check never fails: no transfer ends with the fatal underflow outcome.
C17_BalancesNonNegative ==
    /\ \A i \in ActorIDs : View[i] # None => Unwrap(View[i]).balance >= 0
    /\ IsTransfer => call.result # "Fatal"

\* A transfer of the sender's whole balance went through the deduction.
C17_Witness ==
    /\ IsTransfer /\ call.result = "Ok" /\ call.from # call.to
    /\ call.value > 0 /\ Unwrap(PreFrom).balance = call.value
    /\ Unwrap(View[call.from]).balance = 0

\* C19: the balance of an actor that already has a record changes only by a
\* successful transfer in which it is the sender or the receiver; create_actor
\* with an address that resolves to an existing ActorID leaves that actor's
\* balance and record as they were.
C19_BalanceOnlyByTransfer ==
    \A i \in ActorIDs :
        PreView[i] # None
        => /\ View[i] # None
           /\ Unwrap(View[i]).balance # Unwrap(PreView[i]).balance
              => /\ IsTransfer /\ call.result = "Ok"
                 /\ i \in {call.from, call.to}
           /\ (call.op = "create_actor" /\ call.ret_id = Some(i))
              => View[i] = PreView[i]

\* create_actor returned the ActorID of an actor that already had a record.
C19_ExistingResolved ==
    /\ call.op = "create_actor" /\ call.result = "Ok"
    /\ PreView[Unwrap(call.ret_id)] # None

\* The state tree opened at cid from the underlying store alone.
OpenTree(cid) == bs_get({}, base, cid)

\* C16: a flush that directly follows a successful flush returns the same
\* root and leaves the underlying store unchanged; a flush directly after
\* construction returns a root holding the actor records of the initial root.
C16_FlushIdempotent ==
    (call.op = "flush")
    => /\ (pre.op = "flush" /\ pre.ret_cid # None)
          => /\ call.result = "Ok"
             /\ call.ret_cid = pre.ret_cid
             /\ base = pre.base
       /\ (pre.op = "none")
          => /\ call.result = "Ok"
             /\ OpenTree(Unwrap(call.ret_cid)) # None
             /\ Unwrap(OpenTree(Unwrap(call.ret_cid))).actors = genesis

\* Two flushes in a row, both successful.
C16_Witness ==
    /\ call.op = "flush" /\ call.result = "Ok"
    /\ pre.op = "flush" /\ pre.ret_cid # None
    /\ call.ret_cid = pre.ret_cid

\* --------------------------------------------- observations of construction
IsNew == call.op = "new"
MachineExists == machine_id # None \/ builtin_actors # None

\* The bounds of the supported closed interval of this build.
LowerBound == V18
UpperBound == IF build.hyperspace THEN NetworkVersion_MAX ELSE V18
VersionInRange ==
    /\ Unwrap(context).network_version >= LowerBound
    /\ Unwrap(context).network_version <= UpperBound

\* The store new was given holds the supplied initial root.
RootPresent == bs_has({}, pre.base, Unwrap(context).initial_state_root)

\* Over the store new was given the state tree opens at the initial root and
\* the manifest resolves and loads.
ManifestLoads ==
    LET state_tree == new_from_root(pre.base, Unwrap(context).initial_state_root) IN
    /\ state_tree # None
    /\ LET m == resolve_manifest(Unwrap(state_tree), pre.base,
                                 Unwrap(context).builtin_actors_override) IN
       /\ m # None
       /\ manifest_load(pre.base, Unwrap(m).cid, Unwrap(m).version) # None

\* C12: constructing a machine over a store that does not hold the supplied
\* initial root fails before any write: no machine is produced and the store
\* is exactly as given (the empty-array block has not been written).
C12_MissingRoot ==
    (IsNew /\ ~RootPresent)
    => /\ call.result # "Ok"
       /\ ~MachineExists
       /\ base = pre.base

\* A supported version, the root missing, and a store without the
\* empty-array block before and after.
C12_Witness ==
    /\ IsNew /\ VersionInRange /\ ~RootPresent
    /\ call.result = "MissingRoot"
    /\ EMPTY_ARRAY_BLOCK \notin pre.base /\ EMPTY_ARRAY_BLOCK \notin base

\* C13: a network version outside the supported closed interval makes
\* construction fail with the version error before any store mutation, also
\* when the initial root is missing too; at the lower and at the upper bound
\* construction succeeds when the root is present, the manifest loads and the
\* store files the empty-array block under its well-known identifier.
C13_VersionGate ==
    IsNew
    => /\ ~VersionInRange
          => /\ call.result = "UnsupportedVersion"
             /\ ~MachineExists
             /\ base = pre.base
       /\ (/\ Unwrap(context).network_version \in {LowerBound, UpperBound}
           /\ RootPresent /\ ManifestLoads
           /\ build.put_cid = EMPTY_ARR_CID)
          => /\ call.result = "Ok"
             /\ MachineExists

\* Construction at an upper bound above the lower bound succeeded.
C13_Witness ==
    /\ IsNew /\ call.result = "Ok" /\ MachineExists
    /\ Unwrap(context).network_version = UpperBound
    /\ UpperBound > LowerBound

\* C18: construction puts the empty-array block into the store; when the
\* identifier that put returns differs from EMPTY_ARR_CID construction fails
\* and no machine is produced; so every constructed machine has the
\* empty-array block in its underlying store under EMPTY_ARR_CID.
C18_EmptyArrayChecked ==
    (IsNew /\ VersionInRange /\ RootPresent)
    => /\ build.put_cid.digest \in base
       /\ build.put_cid # EMPTY_ARR_CID
          => /\ call.result # "Ok"
             /\ ~MachineExists
       /\ MachineExists => bs_has({}, base, EMPTY_ARR_CID)

\* The put of the empty-array block returned another identifier than
\* EMPTY_ARR_CID, in a build without debug assertions.
C18_MismatchReached ==
    /\ IsNew /\ VersionInRange /\ RootPresent
    /\ build.put_cid # EMPTY_ARR_CID /\ ~build.debug_assertions
    /\ ManifestLoads

\* C20: when construction passes the version and the root check and then
\* fails opening the state tree or resolving or loading the manifest, no
\* machine is produced and the underlying store differs from the one given by
\* at most the added empty-array block.
C20_FailureFrame ==
    (/\ IsNew /\ VersionInRange /\ RootPresent
     /\ call.result \in {"StateTreeError", "ManifestError"})
    => /\ ~MachineExists
       /\ pre.base \subseteq base
       /\ base \ pre.base \subseteq {build.put_cid.digest}

\* The manifest failed to load after the empty-array block had been added.
C20_Witness ==
    /\ IsNew /\ VersionInRange /\ RootPresent
    /\ call.result = "ManifestError"
    /\ base = pre.base \cup {EMPTY_ARRAY_BLOCK} /\ base # pre.base

\* ------------------------------------------------ observations of two machines
\* What the second machine's state tree shows.
TwinView == TreeView(twin.hamt, twin.snaps)

====
